---- MODULE Spec2Model ----
(***************************************************************************)
(* Serial-port line loggers of RFID-DB-Storage:                            *)
(*   src/script.py   DebugSerialLogger   (sqlite store, single antenna)    *)
(*   src/script2.py  AntennaSerialLogger (MySQL store, antenna tag)        *)
(* Bytes are numbers 0..255, text is a sequence of Unicode code points.    *)
(***************************************************************************)
EXTENDS Integers, Sequences, FiniteSets, TLC

\* ------------------------------------------------------------------ bounds
MaxLen == 3        \* longest payload drawn in SpecCodec
MaxEvents == 4     \* thread starts + device chunks + commands sent, Spec
ShortEvents == 3   \* the same, SpecShort

\* ------------------------------------------------- bytes and code points
LF == 10

\* line feed, carriage return, space, "A", the two bytes of U+00A0 (a
\* lead byte and a continuation byte) and a byte no UTF-8 text holds
Bytes == {LF, 13, 32, 65, 194, 160, 255}

RECURSIVE SeqsUpTo(_, _)
SeqsUpTo(S, n) ==
    IF n = 0 THEN {<<>>}
    ELSE LET shorter == SeqsUpTo(S, n - 1)
         IN  shorter \cup {Append(s, x) : s \in {q \in shorter : Len(q) = n - 1}, x \in S}

Last(s) == s[Len(s)]
Front(s) == SubSeq(s, 1, Len(s) - 1)

RECURSIVE SumSeq(_)
SumSeq(s) == IF s = <<>> THEN 0 ELSE s[1] + SumSeq(Tail(s))

\* bytes.decode("utf-8"), strict: the number of bytes of the well-formed
\* sequence that starts at b[i], or 0 when there is none (UnicodeDecodeError)
IsCont(b, i) == i <= Len(b) /\ b[i] >= 128 /\ b[i] <= 191

Utf8Width(b, i) ==
    LET c == b[i] IN
    IF c < 128 THEN 1
    ELSE IF c >= 194 /\ c <= 223 THEN (IF IsCont(b, i + 1) THEN 2 ELSE 0)
    ELSE IF c >= 224 /\ c <= 239
         THEN IF /\ IsCont(b, i + 1) /\ IsCont(b, i + 2)
                 /\ (c = 224 => b[i + 1] >= 160)
                 /\ (c = 237 => b[i + 1] <= 159)
              THEN 3 ELSE 0
    ELSE IF c >= 240 /\ c <= 244
         THEN IF /\ IsCont(b, i + 1) /\ IsCont(b, i + 2) /\ IsCont(b, i + 3)
                 /\ (c = 240 => b[i + 1] >= 144)
                 /\ (c = 244 => b[i + 1] <= 143)
              THEN 4 ELSE 0
    ELSE 0

Utf8CodePoint(b, i, w) ==
    IF w = 1 THEN b[i]
    ELSE IF w = 2 THEN (b[i] - 192) * 64 + (b[i + 1] - 128)
    ELSE IF w = 3 THEN (b[i] - 224) * 4096 + (b[i + 1] - 128) * 64 + (b[i + 2] - 128)
    ELSE (b[i] - 240) * 262144 + (b[i + 1] - 128) * 4096
             + (b[i + 2] - 128) * 64 + (b[i + 3] - 128)

\* decode from position i with the text decoded so far: [ok, text]
RECURSIVE Utf8DecodeFrom(_, _, _)
Utf8DecodeFrom(b, i, acc) ==
    IF i > Len(b) THEN [ok |-> TRUE, text |-> acc]
    ELSE LET w == Utf8Width(b, i) IN
         IF w = 0 THEN [ok |-> FALSE, text |-> <<>>]
         ELSE Utf8DecodeFrom(b, i + w, Append(acc, Utf8CodePoint(b, i, w)))

Utf8Decode(b) == Utf8DecodeFrom(b, 1, <<>>)

\* str.encode(): UTF-8 bytes of a text
Utf8EncodeChar(c) ==
    IF c < 128 THEN <<c>>
    ELSE IF c < 2048 THEN <<192 + (c \div 64), 128 + (c % 64)>>
    ELSE IF c < 65536
         THEN <<224 + (c \div 4096), 128 + ((c \div 64) % 64), 128 + (c % 64)>>
    ELSE <<240 + (c \div 262144), 128 + ((c \div 4096) % 64),
           128 + ((c \div 64) % 64), 128 + (c % 64)>>

RECURSIVE Utf8Encode(_)
Utf8Encode(t) == IF t = <<>> THEN <<>> ELSE Utf8EncodeChar(t[1]) \o Utf8Encode(Tail(t))

\* str.isspace() of one code point: what str.strip() removes
IsSpace(c) ==
    \/ c >= 9 /\ c <= 13
    \/ c >= 28 /\ c <= 32
    \/ c \in {133, 160, 5760, 8232, 8233, 8239, 8287, 12288}
    \/ c >= 8192 /\ c <= 8202

RECURSIVE LStrip(_)
LStrip(t) == IF t # <<>> /\ IsSpace(t[1]) THEN LStrip(Tail(t)) ELSE t

RECURSIVE RStrip(_)
RStrip(t) == IF t # <<>> /\ IsSpace(Last(t)) THEN RStrip(Front(t)) ELSE t

\* a strip that leaves the front of the text alone
Strip_trailing_only(t) == RStrip(t)

\* str.strip() with no argument
Strip(t) == RStrip(LStrip(t))

\* bytes.hex(): two lowercase hex digits per byte, as code points
HexDigit(n) == IF n < 10 THEN 48 + n ELSE 87 + n

RECURSIVE Hex(_)
Hex(b) ==
    IF b = <<>> THEN <<>>
    ELSE <<HexDigit(b[1] \div 16), HexDigit(b[1] % 16)>> \o Hex(Tail(b))


\* str(raw_bytes) of a bytes object: its repr, b'...' with escapes
ReprQuote(b) ==
    IF (\E i \in 1..Len(b) : b[i] = 39) /\ ~(\E i \in 1..Len(b) : b[i] = 34)
    THEN 34 ELSE 39

ReprByte(c, q) ==
    IF c = q \/ c = 92 THEN <<92, c>>
    ELSE IF c = 9 THEN <<92, 116>>
    ELSE IF c = LF THEN <<92, 110>>
    ELSE IF c = 13 THEN <<92, 114>>
    ELSE IF c < 32 \/ c >= 127 THEN <<92, 120, HexDigit(c \div 16), HexDigit(c % 16)>>
    ELSE <<c>>

RECURSIVE ReprBody(_, _)
ReprBody(b, q) == IF b = <<>> THEN <<>> ELSE ReprByte(b[1], q) \o ReprBody(Tail(b), q)

BytesStr(b) == <<98, ReprQuote(b)>> \o ReprBody(b, ReprQuote(b)) \o <<ReprQuote(b)>>

\* ------------------------------------------------------------------ state
VARIABLES
    logger,          \* which class the instance is: "Debug" or "Antenna"
    serial_conn,     \* "None" | "open" | "closed"
    db_conn,         \* "connected" | "lost" | "closed"
    running,         \* self.running
    log_thread,      \* self.log_thread: 0 is None, else the thread's number
    stats,           \* self.stats
    current_antenna, \* self.current_antenna: 0 while the attribute is unset
    pc,              \* position of each polling thread in _monitor_loop
    raw_data,        \* raw_data of each polling thread
    tmp,             \* value a thread has loaded for a pending += on stats
    fg,              \* position of the foreground (command) task
    result,          \* what the last foreground call reported
    rx,              \* bytes waiting in the serial input buffer
    store,           \* rows of serial_logs, in insertion order
    events_left,     \* thread starts, device chunks and commands still to come
    read_lens,       \* lengths of the non-empty payloads readline returned
    log_calls        \* every log_data call: the row handed over and its outcome

vars == <<logger, serial_conn, db_conn, running, log_thread, stats,
          current_antenna, pc, raw_data, tmp, fg, result, rx, store,
          events_left, read_lens, log_calls>>

Threads == DOMAIN pc

\* what the device sends in one burst: a whole line, or a piece of a line
Chunks == {<<65, LF>>, <<32, 66>>}

SendCommands == {<<233>>}

AntennaArgs == {1, 2, 3}

ThreadStarted(t) == pc[t] # "unstarted"
is_alive(t) == pc[t] \notin {"unstarted", "done"}
AliveThreads == {t \in Threads : is_alive(t)}
NextThread == Cardinality({t \in Threads : ThreadStarted(t)}) + 1

\* a report without a STATS line
Report(status) == [status |-> status, line |-> <<>>]

\* __init__: no transport, store connected, not running, zeroed stats
InitLogger(cls, nevents) ==
    /\ logger = cls
    /\ serial_conn = "None"
    /\ db_conn = "connected"
    /\ running = FALSE
    /\ log_thread = 0
    /\ stats = [bytes_received |-> 0, messages_received |-> 0, last_data_time |-> 0]
    /\ current_antenna = 0
    /\ pc = [t \in 1..nevents |-> "unstarted"]
    /\ raw_data = [t \in 1..nevents |-> <<>>]
    /\ tmp = [t \in 1..nevents |-> 0]
    /\ fg = "idle"
    /\ result = Report("ok")
    /\ rx = <<>>
    /\ store = <<>>
    /\ events_left = nevents
    /\ read_lens = <<>>
    /\ log_calls = <<>>

Init == \E cls \in {"Debug", "Antenna"} : InitLogger(cls, MaxEvents)

\* ------------------------------------------------------------- foreground
\* connect(): serial.Serial(...) either opens the port or raises
connect ==
    /\ fg = "idle"
    /\ serial_conn = "None"
    /\ \E opened \in BOOLEAN :
        /\ serial_conn' = IF opened THEN "open" ELSE serial_conn
        /\ result' = Report(IF opened THEN "ok" ELSE "connect_failed")
    /\ UNCHANGED <<logger, db_conn, running, log_thread, stats,
                   current_antenna, pc, raw_data, tmp, fg, rx, store,
                   events_left, read_lens, log_calls>>

\* threading.Thread(target=self._monitor_loop).start()
SpawnThread ==
    /\ log_thread' = NextThread
    /\ pc' = [pc EXCEPT ![NextThread] = "while"]

\* a start_monitoring without the `if self.running` test
D_start_monitoring_unguarded ==
    /\ running' = TRUE
    /\ SpawnThread
    /\ result' = Report("ok")

\* DebugSerialLogger.start_monitoring
D_start_monitoring ==
    IF running
    THEN /\ result' = Report("already_active")
         /\ UNCHANGED <<running, log_thread, pc>>
    ELSE /\ running' = TRUE
         /\ SpawnThread
         /\ result' = Report("ok")

\* AntennaSerialLogger.start_monitoring(antenna)
A_start_monitoring(antenna) ==
    IF running
    THEN /\ result' = Report("already_active")
         /\ UNCHANGED <<running, log_thread, pc, current_antenna>>
    ELSE IF antenna \notin {1, 2}
    THEN /\ result' = Report("bad_antenna")
         /\ UNCHANGED <<running, log_thread, pc, current_antenna>>
    ELSE /\ current_antenna' = antenna
         /\ running' = TRUE
         /\ SpawnThread
         /\ result' = Report("ok")

D_start ==
    /\ fg = "idle"
    /\ logger = "Debug"
    /\ running \/ events_left > 0
    /\ D_start_monitoring
    /\ events_left' = IF log_thread' # log_thread THEN events_left - 1 ELSE events_left
    /\ UNCHANGED <<logger, serial_conn, db_conn, stats, current_antenna,
                   raw_data, tmp, fg, rx, store, read_lens, log_calls>>

A_start ==
    /\ fg = "idle"
    /\ logger = "Antenna"
    /\ running \/ events_left > 0
    /\ \E antenna \in AntennaArgs : A_start_monitoring(antenna)
    /\ events_left' = IF log_thread' # log_thread THEN events_left - 1 ELSE events_left
    /\ UNCHANGED <<logger, serial_conn, db_conn, stats, raw_data, tmp, fg, rx,
                   store, read_lens, log_calls>>

\* __main__ of script2.py, command "start": start with the current antenna
\* (1 when none was set), then wait in `while logger.running`
A_main_start ==
    /\ fg = "idle"
    /\ logger = "Antenna"
    /\ running \/ events_left > 0
    /\ A_start_monitoring(IF current_antenna = 0 THEN 1 ELSE current_antenna)
    /\ fg' = "main_wait"
    /\ events_left' = IF log_thread' # log_thread THEN events_left - 1 ELSE events_left
    /\ UNCHANGED <<logger, serial_conn, db_conn, stats, raw_data, tmp, rx,
                   store, read_lens, log_calls>>

\* __main__ of script2.py: Ctrl+C while waiting sets logger.running = False
A_main_interrupt ==
    /\ fg = "main_wait"
    /\ running' = FALSE
    /\ fg' = "idle"
    /\ result' = Report("ok")
    /\ UNCHANGED <<logger, serial_conn, db_conn, log_thread, stats,
                   current_antenna, pc, raw_data, tmp, rx, store, events_left,
                   read_lens, log_calls>>

\* AntennaSerialLogger.set_antenna
A_set_antenna(antenna_number) ==
    /\ fg = "idle"
    /\ logger = "Antenna"
    /\ IF antenna_number \notin {1, 2}
       THEN result' = Report("bad_antenna") /\ UNCHANGED current_antenna
       ELSE current_antenna' = antenna_number /\ result' = Report("ok")
    /\ UNCHANGED <<logger, serial_conn, db_conn, running, log_thread, stats,
                   pc, raw_data, tmp, fg, rx, store, events_left, read_lens,
                   log_calls>>

\* show_stats: the STATS line holds messages_received, then bytes_received
StatsLine ==
    [status |-> "stats", line |-> <<stats.messages_received, stats.bytes_received>>]

show_stats ==
    /\ fg = "idle"
    /\ result' = StatsLine
    /\ UNCHANGED <<logger, serial_conn, db_conn, running, log_thread, stats,
                   current_antenna, pc, raw_data, tmp, fg, rx, store,
                   events_left, read_lens, log_calls>>

\* stop(): self.running = False
stop_flag ==
    /\ fg = "idle"
    /\ running' = FALSE
    /\ fg' = "stop_join"
    /\ UNCHANGED <<logger, serial_conn, db_conn, log_thread, stats,
                   current_antenna, pc, raw_data, tmp, result, rx, store,
                   events_left, read_lens, log_calls>>

\* a thread inside a store call can stay there longer than the join timeout
\* (sqlite busy wait, network round trip)
BlockedInStore(t) == pc[t] \in {"log_data", "reconnect_db"}

\* stop(): if self.log_thread and self.log_thread.is_alive(): join(timeout=2)
\* returns once the thread has ended, or after the timeout
stop_join ==
    /\ fg = "stop_join"
    /\ IF log_thread = 0 THEN TRUE
       ELSE ~is_alive(log_thread) \/ BlockedInStore(log_thread)
    /\ fg' = "stop_serial"
    /\ UNCHANGED <<logger, serial_conn, db_conn, running, log_thread, stats,
                   current_antenna, pc, raw_data, tmp, result, rx, store,
                   events_left, read_lens, log_calls>>

\* stop(): if self.serial_conn and self.serial_conn.is_open: close()
stop_serial ==
    /\ fg = "stop_serial"
    /\ IF serial_conn = "open"
       THEN serial_conn' = "closed" /\ rx' = <<>>
       ELSE UNCHANGED <<serial_conn, rx>>
    /\ fg' = "stop_db"
    /\ UNCHANGED <<logger, db_conn, running, log_thread, stats,
                   current_antenna, pc, raw_data, tmp, result, store,
                   events_left, read_lens, log_calls>>

\* stop(): DebugSerialLogger closes db_conn whenever it is set,
\* AntennaSerialLogger only when is_connected()
stop_db ==
    /\ fg = "stop_db"
    /\ db_conn' = IF logger = "Debug" \/ db_conn = "connected" THEN "closed" ELSE db_conn
    /\ fg' = "stop_stats"
    /\ UNCHANGED <<logger, serial_conn, running, log_thread, stats,
                   current_antenna, pc, raw_data, tmp, result, rx, store,
                   events_left, read_lens, log_calls>>

\* a stop() that also zeroes the counters
stop_stats_resets ==
    /\ fg = "stop_stats"
    /\ result' = StatsLine
    /\ stats' = [bytes_received |-> 0, messages_received |-> 0,
                 last_data_time |-> 0]
    /\ fg' = "idle"
    /\ UNCHANGED <<logger, serial_conn, db_conn, running, log_thread,
                   current_antenna, pc, raw_data, tmp, rx, store, events_left,
                   read_lens, log_calls>>

\* stop(): print("Monitor stopped"); self.show_stats()
stop_stats ==
    /\ fg = "stop_stats"
    /\ result' = StatsLine
    /\ fg' = "idle"
    /\ UNCHANGED <<logger, serial_conn, db_conn, running, log_thread, stats,
                   current_antenna, pc, raw_data, tmp, rx, store, events_left,
                   read_lens, log_calls>>

\* ------------------------------------------------------------------ store
\* a values tuple that counts the characters of data
D_row_text_length(data, raw_bytes, data_type) ==
    [data |-> data, data_type |-> data_type, raw_bytes |-> BytesStr(raw_bytes),
     byte_count |-> Len(data)]

\* the values tuple of DebugSerialLogger.log_data's INSERT
D_row(data, raw_bytes, data_type) ==
    [data |-> data, data_type |-> data_type, raw_bytes |-> BytesStr(raw_bytes),
     byte_count |-> Len(raw_bytes)]

\* the values tuple of AntennaSerialLogger.log_data's INSERT
A_row(data, raw_bytes, antenna, data_type) ==
    [data |-> data, data_type |-> data_type, raw_bytes |-> Hex(raw_bytes),
     byte_count |-> Len(raw_bytes), antenna |-> antenna]

LogCall(raw_bytes, row, outcome) == [raw |-> raw_bytes, row |-> row, outcome |-> outcome]

\* a log_data that executes its INSERT twice
D_log_data_twice(data, raw_bytes, data_type, fault) ==
    LET row == D_row(data, raw_bytes, data_type)
        outcome == IF db_conn = "connected" /\ ~fault THEN "stored" ELSE "failed"
        call == LogCall(raw_bytes, row, outcome)
    IN  /\ store' = IF outcome = "stored" THEN store \o <<row, row>> ELSE store
        /\ log_calls' = log_calls \o <<call, call>>

\* a log_data whose failing INSERT leaves its row behind all the same
D_log_data_keeps_failed(data, raw_bytes, data_type, fault) ==
    LET row == D_row(data, raw_bytes, data_type) IN
    /\ store' = Append(store, row)
    /\ log_calls' = Append(log_calls,
           LogCall(raw_bytes, row,
                   IF db_conn = "connected" /\ ~fault THEN "stored" ELSE "failed"))

\* DebugSerialLogger.log_data: INSERT and commit; any exception (closed
\* database, failing statement) is printed and swallowed
D_log_data(data, raw_bytes, data_type, fault) ==
    LET row == D_row(data, raw_bytes, data_type) IN
    IF db_conn = "connected" /\ ~fault
    THEN /\ store' = Append(store, row)
         /\ log_calls' = Append(log_calls, LogCall(raw_bytes, row, "stored"))
    ELSE /\ store' = store
         /\ log_calls' = Append(log_calls, LogCall(raw_bytes, row, "failed"))

\* AntennaSerialLogger.log_data up to the except clauses: nothing is attempted
\* unless is_connected(); a mysql Error leaves the row unwritten
A_log_data(data, raw_bytes, antenna, data_type, fault) ==
    LET row == A_row(data, raw_bytes, antenna, data_type) IN
    IF db_conn # "connected"
    THEN /\ store' = store
         /\ log_calls' = Append(log_calls, LogCall(raw_bytes, row, "skipped"))
    ELSE IF fault
    THEN /\ store' = store
         /\ log_calls' = Append(log_calls, LogCall(raw_bytes, row, "failed"))
    ELSE /\ store' = Append(store, row)
         /\ log_calls' = Append(log_calls, LogCall(raw_bytes, row, "stored"))

\* a binary path that drops the last byte before it takes the hex
Classify_hex_without_terminator(raw_bytes) ==
    LET d == Utf8Decode(raw_bytes) IN
    IF d.ok THEN [data |-> Strip(d.text), data_type |-> "auto_received"]
    ELSE [data |-> Hex(Front(raw_bytes)), data_type |-> "binary_received"]

\* raw_data.decode("utf-8").strip(), or raw_data.hex() on UnicodeDecodeError
Classify(raw_bytes) ==
    LET d == Utf8Decode(raw_bytes) IN
    IF d.ok THEN [data |-> Strip(d.text), data_type |-> "auto_received"]
    ELSE [data |-> Hex(raw_bytes), data_type |-> "binary_received"]

\* ----------------------------------------------------- foreground, script.py
\* a send_command that logs the command before it writes it
D_send_command_logs_first(command, write_fault, db_fault) ==
    IF serial_conn # "open"
    THEN /\ result' = Report("send_failed")
         /\ UNCHANGED <<store, log_calls>>
    ELSE /\ D_log_data(command, Utf8Encode(command) \o <<LF>>, "command_sent",
                       db_fault)
         /\ result' = Report(IF write_fault THEN "send_failed" ELSE "ok")

\* DebugSerialLogger.send_command
D_send_command(command, write_fault, db_fault) ==
    IF serial_conn # "open"
    THEN /\ result' = Report("send_failed")
         /\ UNCHANGED <<store, log_calls>>
    ELSE IF write_fault
    THEN /\ result' = Report("send_failed")
         /\ UNCHANGED <<store, log_calls>>
    ELSE /\ D_log_data(command, Utf8Encode(command) \o <<LF>>, "command_sent", db_fault)
         /\ result' = Report("ok")

D_send(commands) ==
    /\ fg = "idle"
    /\ logger = "Debug"
    /\ events_left > 0
    /\ events_left' = events_left - 1
    /\ \E command \in commands, write_fault \in BOOLEAN, db_fault \in BOOLEAN :
           D_send_command(command, write_fault, db_fault)
    /\ UNCHANGED <<logger, serial_conn, db_conn, running, log_thread, stats,
                   current_antenna, pc, raw_data, tmp, fg, rx, read_lens>>

\* DebugSerialLogger.test_connection: read(in_waiting) takes every waiting byte
D_test_connection ==
    /\ fg = "idle"
    /\ logger = "Debug"
    /\ IF serial_conn # "open"
       THEN result' = Report("no_connection") /\ rx' = rx
       ELSE result' = Report("ok") /\ rx' = <<>>
    /\ UNCHANGED <<logger, serial_conn, db_conn, running, log_thread, stats,
                   current_antenna, pc, raw_data, tmp, fg, store, events_left,
                   read_lens, log_calls>>

\* ------------------------------------------------------------ environment
\* the device sends one more chunk into the open port's input buffer
device_send(chunkset) ==
    /\ serial_conn = "open"
    /\ events_left > 0
    /\ events_left' = events_left - 1
    /\ \E c \in chunkset : rx' = rx \o c
    /\ UNCHANGED <<logger, serial_conn, db_conn, running, log_thread, stats,
                   current_antenna, pc, raw_data, tmp, fg, result, store,
                   read_lens, log_calls>>

\* the MySQL connection drops: is_connected() is False from now on
connection_lost ==
    /\ logger = "Antenna"
    /\ db_conn = "connected"
    /\ db_conn' = "lost"
    /\ UNCHANGED <<logger, serial_conn, running, log_thread, stats,
                   current_antenna, pc, raw_data, tmp, fg, result, rx, store,
                   events_left, read_lens, log_calls>>

\* ---------------------------------------------------------- _monitor_loop
Goto(t, where) == pc' = [pc EXCEPT ![t] = where]

\* a loop that a read without a payload ends
AfterRead_exit == "done"

\* where the loop goes on after the readline block: script.py tries a single
\* byte read next, script2.py sleeps and loops
AfterRead == IF logger = "Debug" THEN "single_byte" ELSE "while"

\* serial_conn.readline(): through the first line feed, or whatever has
\* arrived when the read timeout expires
ReadLine(buf) ==
    IF \E i \in 1..Len(buf) : buf[i] = LF
    THEN SubSeq(buf, 1, CHOOSE i \in 1..Len(buf) :
                            buf[i] = LF /\ \A j \in 1..(i - 1) : buf[j] # LF)
    ELSE buf

\* while self.running:
monitor_while(t) ==
    /\ pc[t] = "while"
    /\ Goto(t, IF running THEN "if_open" ELSE "done")
    /\ UNCHANGED <<logger, serial_conn, db_conn, running, log_thread, stats,
                   current_antenna, raw_data, tmp, fg, result, rx, store,
                   events_left, read_lens, log_calls>>

\* if self.serial_conn and self.serial_conn.is_open: ... else on to the
\* progress report (script.py) and the sleep
monitor_if_open(t) ==
    /\ pc[t] = "if_open"
    /\ Goto(t, IF serial_conn = "open"
               THEN (IF logger = "Debug" THEN "in_waiting" ELSE "readline")
               ELSE "while")
    /\ UNCHANGED <<logger, serial_conn, db_conn, running, log_thread, stats,
                   current_antenna, raw_data, tmp, fg, result, rx, store,
                   events_left, read_lens, log_calls>>

\* script.py: bytes_waiting = self.serial_conn.in_waiting; when it raises, the
\* outer handler prints, sleeps one second and the loop goes on
D_monitor_in_waiting(t) ==
    /\ pc[t] = "in_waiting"
    /\ \E fault \in BOOLEAN :
          Goto(t, IF serial_conn = "open" /\ ~fault THEN "readline" ELSE "while")
    /\ UNCHANGED <<logger, serial_conn, db_conn, running, log_thread, stats,
                   current_antenna, raw_data, tmp, fg, result, rx, store,
                   events_left, read_lens, log_calls>>

\* a loop without the `if raw_data` test: an empty read is counted too
monitor_readline_counts_empty(t) ==
    /\ pc[t] = "readline"
    /\ \E fault \in BOOLEAN :
          IF serial_conn # "open" \/ fault
          THEN /\ Goto(t, AfterRead)
               /\ UNCHANGED <<raw_data, rx, read_lens>>
          ELSE LET line == ReadLine(rx) IN
               /\ rx' = SubSeq(rx, Len(line) + 1, Len(rx))
               /\ Goto(t, "bytes_load")
               /\ raw_data' = [raw_data EXCEPT ![t] = line]
               /\ read_lens' = IF line = <<>> THEN read_lens
                                ELSE Append(read_lens, Len(line))
    /\ UNCHANGED <<logger, serial_conn, db_conn, running, log_thread, stats,
                   current_antenna, tmp, fg, result, store, events_left,
                   log_calls>>

\* raw_data = self.serial_conn.readline(); if raw_data: ...
\* a raise is caught by `except Exception as read_error`
monitor_readline(t) ==
    /\ pc[t] = "readline"
    /\ \E fault \in BOOLEAN :
          IF serial_conn # "open" \/ fault
          THEN /\ Goto(t, AfterRead)
               /\ UNCHANGED <<raw_data, rx, read_lens>>
          ELSE LET line == ReadLine(rx) IN
               /\ rx' = SubSeq(rx, Len(line) + 1, Len(rx))
               /\ IF line = <<>>
                  THEN /\ Goto(t, AfterRead)
                       /\ UNCHANGED <<raw_data, read_lens>>
                  ELSE /\ Goto(t, "bytes_load")
                       /\ raw_data' = [raw_data EXCEPT ![t] = line]
                       /\ read_lens' = Append(read_lens, Len(line))
    /\ UNCHANGED <<logger, serial_conn, db_conn, running, log_thread, stats,
                   current_antenna, tmp, fg, result, store, events_left,
                   log_calls>>

\* self.stats["bytes_received"] += len(raw_data): the load ...
monitor_bytes_load(t) ==
    /\ pc[t] = "bytes_load"
    /\ tmp' = [tmp EXCEPT ![t] = stats.bytes_received]
    /\ Goto(t, "bytes_store")
    /\ UNCHANGED <<logger, serial_conn, db_conn, running, log_thread, stats,
                   current_antenna, raw_data, fg, result, rx, store,
                   events_left, read_lens, log_calls>>

\* ... and the store of the sum
monitor_bytes_store(t) ==
    /\ pc[t] = "bytes_store"
    /\ stats' = [stats EXCEPT !.bytes_received = tmp[t] + Len(raw_data[t])]
    /\ tmp' = [tmp EXCEPT ![t] = 0]
    /\ Goto(t, "msgs_load")
    /\ UNCHANGED <<logger, serial_conn, db_conn, running, log_thread,
                   current_antenna, raw_data, fg, result, rx, store,
                   events_left, read_lens, log_calls>>

\* self.stats["messages_received"] += 1: the load ...
monitor_msgs_load(t) ==
    /\ pc[t] = "msgs_load"
    /\ tmp' = [tmp EXCEPT ![t] = stats.messages_received]
    /\ Goto(t, "msgs_store")
    /\ UNCHANGED <<logger, serial_conn, db_conn, running, log_thread, stats,
                   current_antenna, raw_data, fg, result, rx, store,
                   events_left, read_lens, log_calls>>

\* ... and the store of the sum
monitor_msgs_store(t) ==
    /\ pc[t] = "msgs_store"
    /\ stats' = [stats EXCEPT !.messages_received = tmp[t] + 1]
    /\ tmp' = [tmp EXCEPT ![t] = 0]
    /\ Goto(t, "time_store")
    /\ UNCHANGED <<logger, serial_conn, db_conn, running, log_thread,
                   current_antenna, raw_data, fg, result, rx, store,
                   events_left, read_lens, log_calls>>

\* self.stats["last_data_time"] = datetime.now(): a later instant each time
monitor_time_store(t) ==
    /\ pc[t] = "time_store"
    /\ stats' = [stats EXCEPT !.last_data_time = stats.last_data_time + 1]
    /\ Goto(t, "log_data")
    /\ UNCHANGED <<logger, serial_conn, db_conn, running, log_thread,
                   current_antenna, raw_data, tmp, fg, result, rx, store,
                   events_left, read_lens, log_calls>>

\* a loop that logs a payload only when something is left of it
D_monitor_log_skips_empty(t) ==
    /\ pc[t] = "log_data"
    /\ logger = "Debug"
    /\ IF Classify(raw_data[t]).data = <<>>
       THEN UNCHANGED <<store, log_calls>>
       ELSE \E fault \in BOOLEAN :
               D_log_data(Classify(raw_data[t]).data, raw_data[t],
                          Classify(raw_data[t]).data_type, fault)
    /\ raw_data' = [raw_data EXCEPT ![t] = <<>>]
    /\ Goto(t, "single_byte")
    /\ UNCHANGED <<logger, serial_conn, db_conn, running, log_thread, stats,
                   current_antenna, tmp, fg, result, rx, events_left,
                   read_lens>>

\* script.py: decode or hex, then self.log_data(...)
D_monitor_log(t) ==
    /\ pc[t] = "log_data"
    /\ logger = "Debug"
    /\ \E fault \in BOOLEAN :
          D_log_data(Classify(raw_data[t]).data, raw_data[t],
                     Classify(raw_data[t]).data_type, fault)
    /\ raw_data' = [raw_data EXCEPT ![t] = <<>>]
    /\ Goto(t, "single_byte")
    /\ UNCHANGED <<logger, serial_conn, db_conn, running, log_thread, stats,
                   current_antenna, tmp, fg, result, rx, events_left,
                   read_lens>>

\* script2.py: decode or hex, then self.log_data(..., self.current_antenna, ...);
\* `except Error` goes on to reconnect_db()
A_monitor_log(t) ==
    /\ pc[t] = "log_data"
    /\ logger = "Antenna"
    /\ \E fault \in BOOLEAN :
          /\ A_log_data(Classify(raw_data[t]).data, raw_data[t], current_antenna,
                        Classify(raw_data[t]).data_type, fault)
          /\ Goto(t, IF db_conn = "connected" /\ fault THEN "reconnect_db" ELSE "while")
    /\ raw_data' = [raw_data EXCEPT ![t] = <<>>]
    /\ UNCHANGED <<logger, serial_conn, db_conn, running, log_thread, stats,
                   current_antenna, tmp, fg, result, rx, events_left,
                   read_lens>>

\* AntennaSerialLogger.reconnect_db: close the old connection, connect again;
\* when connect raises, db_conn stays the closed connection
A_reconnect_db(t) ==
    /\ pc[t] = "reconnect_db"
    /\ \E connected \in BOOLEAN : db_conn' = IF connected THEN "connected" ELSE "closed"
    /\ Goto(t, "while")
    /\ UNCHANGED <<logger, serial_conn, running, log_thread, stats,
                   current_antenna, raw_data, tmp, fg, result, rx, store,
                   events_left, read_lens, log_calls>>

\* script.py, "Method 3": if in_waiting > 0: read(1), printed and dropped (a
\* raise is passed over); then the progress report and sleep(0.01)
D_monitor_single_byte(t) ==
    /\ pc[t] = "single_byte"
    /\ rx' = IF serial_conn = "open" /\ rx # <<>> THEN Tail(rx) ELSE rx
    /\ Goto(t, "while")
    /\ UNCHANGED <<logger, serial_conn, db_conn, running, log_thread, stats,
                   current_antenna, raw_data, tmp, fg, result, store,
                   events_left, read_lens, log_calls>>

_monitor_loop ==
    \/ \E t \in Threads : monitor_while(t)
    \/ \E t \in Threads : monitor_if_open(t)
    \/ \E t \in Threads : D_monitor_in_waiting(t)
    \/ \E t \in Threads : monitor_readline(t)
    \/ \E t \in Threads : monitor_bytes_load(t)
    \/ \E t \in Threads : monitor_bytes_store(t)
    \/ \E t \in Threads : monitor_msgs_load(t)
    \/ \E t \in Threads : monitor_msgs_store(t)
    \/ \E t \in Threads : monitor_time_store(t)
    \/ \E t \in Threads : D_monitor_log(t)
    \/ \E t \in Threads : A_monitor_log(t)
    \/ \E t \in Threads : A_reconnect_db(t)
    \/ \E t \in Threads : D_monitor_single_byte(t)

stop ==
    \/ stop_flag
    \/ stop_join
    \/ stop_serial
    \/ stop_db
    \/ stop_stats

Next ==
    \/ connect
    \/ D_start
    \/ A_start
    \/ A_main_start
    \/ A_main_interrupt
    \/ \E n \in AntennaArgs : A_set_antenna(n)
    \/ show_stats
    \/ D_send(SendCommands)
    \/ D_test_connection
    \/ stop
    \/ device_send(Chunks)
    \/ connection_lost
    \/ _monitor_loop

Spec == Init /\ [][Next]_vars

\* the same logger over shorter sessions
ShortInit == \E cls \in {"Debug", "Antenna"} : InitLogger(cls, ShortEvents)

SpecShort == ShortInit /\ [][Next]_vars


\* one step of polling thread t
ThreadStep(t) ==
    \/ monitor_while(t)
    \/ monitor_if_open(t)
    \/ D_monitor_in_waiting(t)
    \/ monitor_readline(t)
    \/ monitor_bytes_load(t)
    \/ monitor_bytes_store(t)
    \/ monitor_msgs_load(t)
    \/ monitor_msgs_store(t)
    \/ monitor_time_store(t)
    \/ D_monitor_log(t)
    \/ A_monitor_log(t)
    \/ A_reconnect_db(t)
    \/ D_monitor_single_byte(t)

\* every started thread keeps being scheduled, and each of its calls (a read
\* with its timeout, a sleep, a store call) returns
ThreadsRun == \A t \in 1..ShortEvents : WF_vars(ThreadStep(t))

SpecFair == ShortInit /\ [][Next]_vars /\ ThreadsRun

\* --------------------------------------------- one payload, or one command
CmdChars == {65, 233, 8364}

\* what one readline call can return: no line feed before the last byte
Frames == {p \in SeqsUpTo(Bytes, MaxLen) :
              p # <<>> /\ \A i \in 1..(Len(p) - 1) : p[i] # LF}

CodecCommands == SeqsUpTo(CmdChars, MaxLen) \ {<<>>}

\* a connected, monitoring logger: either the device has sent one payload, or
\* the user is about to send one command
CodecInit ==
    \E cls \in {"Debug", "Antenna"} :
        /\ logger = cls
        /\ serial_conn = "open"
        /\ db_conn = "connected"
        /\ running = TRUE
        /\ log_thread = 1
        /\ stats = [bytes_received |-> 0, messages_received |-> 0, last_data_time |-> 0]
        /\ current_antenna \in (IF cls = "Debug" THEN {0} ELSE {1, 2})
        /\ pc = <<"while">>
        /\ raw_data = << <<>> >>
        /\ tmp = <<0>>
        /\ fg = "idle"
        /\ result = Report("ok")
        /\ store = <<>>
        /\ read_lens = <<>>
        /\ log_calls = <<>>
        /\ \/ rx \in Frames /\ events_left = 0
           \/ rx = <<>> /\ events_left = 1 /\ cls = "Debug"

CodecNext ==
    \/ _monitor_loop
    \/ D_send(CodecCommands)

SpecCodec == CodecInit /\ [][CodecNext]_vars

\* ------------------------------------------------------------------ claims
ReceivedTypes == {"auto_received", "binary_received"}

IsReceived(call) == call.row.data_type \in ReceivedTypes
IsStored(call) == call.outcome = "stored"

\* the log_data calls made for received payloads, and the rows they left
ReceivedCalls == SelectSeq(log_calls, IsReceived)
StoredCalls == SelectSeq(log_calls, IsStored)
RowIsReceived(row) == row.data_type \in ReceivedTypes
ReceivedRows == SelectSeq(store, RowIsReceived)

StoredAmong(calls, n) == Cardinality({j \in 1..n : calls[j].outcome = "stored"})

UpdatePcs == {"bytes_load", "bytes_store", "msgs_load", "msgs_store", "time_store"}

\* C1: at most one polling task is alive, and exactly one while running
C1_OnePollingTask ==
    /\ Cardinality(AliveThreads) <= 1
    /\ running => Cardinality(AliveThreads) = 1

\* C2: a start call made while running reports "already active" and leaves
\* running, the thread handle, the threads, the stats and the antenna alone
C2_StartWhileRunningRejected ==
    [][(running /\ (D_start \/ A_start \/ A_main_start))
          => /\ result'.status = "already_active"
             /\ UNCHANGED <<running, log_thread, pc, stats, current_antenna>>]_vars

C2_Witness ==
    /\ result.status = "already_active"
    /\ running
    /\ stats.messages_received > 0

\* some set of the payloads read so far accounts for both m messages and b bytes
Accounted(m, b) ==
    \E S \in SUBSET (1..Len(read_lens)) :
        /\ Cardinality(S) = m
        /\ SumSeq([i \in 1..Len(read_lens) |-> IF i \in S THEN read_lens[i] ELSE 0]) = b

\* C3: a STATS line never shows bytes of k frames beside a message count of
\* another number of frames
C3_StatsLineNeverTorn ==
    result.status = "stats" => Accounted(result.line[1], result.line[2])

\* C4: while no stats update is in progress, the counters equal the number
\* and the total length of the payloads read
C4_StatsMatchReads ==
    (\A t \in Threads : pc[t] \notin UpdatePcs)
        => /\ stats.messages_received = Len(read_lens)
           /\ stats.bytes_received = SumSeq(read_lens)

\* the store holds the rows of the successful log_data calls, in call order
StoreIsStoredCalls ==
    /\ Len(store) = Len(StoredCalls)
    /\ \A i \in 1..Len(store) : store[i] = StoredCalls[i].row

\* the characters that end a line: those str.splitlines() breaks at
LineTerminators == {10, 11, 12, 13, 28, 29, 30, 133, 8232, 8233}

RECURSIVE RStripEOL(_)
RStripEOL(t) ==
    IF t # <<>> /\ Last(t) \in LineTerminators THEN RStripEOL(Front(t)) ELSE t

\* text is data between a run of whitespace in front and one behind, and data
\* neither starts nor ends with whitespace
IsTextLessOuterWhitespace(data, text) ==
    \E a \in 0..Len(text) : \E b \in a..Len(text) :
        /\ data = SubSeq(text, a + 1, b)
        /\ \A k \in 1..a : IsSpace(text[k])
        /\ \A k \in (b + 1)..Len(text) : IsSpace(text[k])
        /\ data # <<>> => ~IsSpace(data[1]) /\ ~IsSpace(Last(data))

HexVal(c) ==
    IF c >= 48 /\ c <= 57 THEN c - 48
    ELSE IF c >= 97 /\ c <= 102 THEN c - 87
    ELSE -1

IsHexOf(data, payload) ==
    /\ Len(data) = 2 * Len(payload)
    /\ \A k \in 1..Len(payload) :
          /\ HexVal(data[2 * k - 1]) >= 0
          /\ HexVal(data[2 * k]) >= 0
          /\ 16 * HexVal(data[2 * k - 1]) + HexVal(data[2 * k]) = payload[k]

\* C6: a payload that is not valid UTF-8 is recorded as binary_received with
\* the hex digits of all its bytes, and every payload read is either on its way
\* to log_data or has been handed to it
C6_InvalidUtf8StoredAsHex ==
    /\ StoreIsStoredCalls
    /\ \A i \in 1..Len(ReceivedCalls) :
          LET c == ReceivedCalls[i]
          IN  ~Utf8Decode(c.raw).ok => /\ c.row.data_type = "binary_received"
                                       /\ IsHexOf(c.row.data, c.raw)
    /\ Len(ReceivedCalls) + Cardinality({t \in Threads : raw_data[t] # <<>>})
           = Len(read_lens)
    /\ \A t \in Threads :
          raw_data[t] # <<>> => pc[t] \in UpdatePcs \cup {"log_data"}

C6_Witness ==
    \E i \in 1..Len(store) :
        /\ store[i].data_type = "binary_received"
        /\ Len(StoredCalls[i].raw) > 1
        /\ Last(StoredCalls[i].raw) = LF
        /\ \E t \in Threads : pc[t] = "readline"

\* C7: the byte_count of every stored row is the length of the bytes read or
\* written: of the payload readline returned, of the encoded command and its
\* line feed
C7_ByteCountIsOriginalLength ==
    /\ StoreIsStoredCalls
    /\ \A i \in 1..Len(store) :
          /\ store[i].byte_count = Len(StoredCalls[i].raw)
          /\ store[i].data_type = "command_sent"
                => store[i].byte_count = Len(Utf8Encode(store[i].data)) + 1
    /\ \A k \in 1..Len(ReceivedCalls) :
          ReceivedCalls[k].row.byte_count = read_lens[k]

C7_Witness ==
    \E i \in 1..Len(store) :
        /\ store[i].data_type = "command_sent"
        /\ store[i].byte_count > Len(store[i].data) + 1

\* C8: a polling thread ends only at the loop test, with running false
C8_ExitOnlyOnStopSignal ==
    [][\A t \in Threads :
          (pc[t] # "done" /\ pc'[t] = "done") => (pc[t] = "while" /\ ~running)]_vars

C8_Witness ==
    /\ running
    /\ \E i \in 1..Len(log_calls) : log_calls[i].outcome = "failed"
    /\ \E t \in Threads : is_alive(t) /\ pc[t] = "readline"

C10_NoUseAfterClose ==
    \A t \in Threads :
        /\ pc[t] = "readline" => serial_conn # "closed"
        /\ (logger = "Debug" /\ pc[t] = "log_data") => db_conn # "closed"

\* the state a completed stop() leaves: not running, no open port, no
\* connected store
Stopped == ~running /\ serial_conn # "open" /\ db_conn # "connected"

\* C11: every step of a stop() made on a stopped logger leaves running, the
\* port, the store connection, the rows, the stats and the threads as they
\* are, and ends with the STATS line of those stats
C11_SecondStopChangesNothing ==
    [][(Stopped /\ stop)
          => /\ UNCHANGED <<running, serial_conn, db_conn, stats, store,
                            log_calls, log_thread, pc, current_antenna>>
             /\ result' = result \/ result' = StatsLine]_vars

\* the sqlite connection is closed by stop() alone: a stop() that has come to
\* its db_conn.close() with the connection closed is a second stop()
C11_Witness ==
    /\ logger = "Debug"
    /\ fg = "stop_db"
    /\ db_conn = "closed"
    /\ serial_conn = "closed"
    /\ stats.messages_received > 0
    /\ result.status = "stats"

\* C12: a start made with antenna 2 selected leaves antenna 2 selected, and
\* every row handed to the store carries the antenna selected at that moment
C12_StartKeepsAntennaTwo ==
    [][/\ (current_antenna = 2 /\ (A_start \/ A_main_start))
             => current_antenna' = 2
       /\ (logger = "Antenna" /\ Len(log_calls') > Len(log_calls))
             => log_calls'[Len(log_calls')].row.antenna = current_antenna]_vars

\* C13: in script2.py a log_data call that leaves no row goes on to
\* reconnect_db, once, and whatever reconnect_db meets, the thread is back at
\* the loop test after it
C13_UnstoredInsertReconnectsOnce ==
    [][\A t \in Threads :
          /\ (/\ logger = "Antenna"
              /\ pc[t] = "log_data"
              /\ pc'[t] # "log_data"
              /\ log_calls'[Len(log_calls')].outcome # "stored")
                => pc'[t] = "reconnect_db"
          /\ (pc[t] = "reconnect_db" /\ pc'[t] # "reconnect_db")
                => pc'[t] = "while"]_vars

\* C14: send_command never touches the stats, running or the threads; with the
\* port not open it reports failure; when it reports failure nothing was handed
\* to the store; otherwise exactly one command_sent row was handed over
C14_FailedSendStoresNothing ==
    [][D_send(SendCommands)
          => /\ UNCHANGED <<stats, running, log_thread, pc>>
             /\ serial_conn # "open" => result'.status = "send_failed"
             /\ result'.status = "send_failed" => UNCHANGED <<store, log_calls>>
             /\ result'.status # "send_failed"
                   => /\ result'.status = "ok"
                      /\ Len(log_calls') = Len(log_calls) + 1
                      /\ log_calls'[Len(log_calls')].row.data_type = "command_sent"
                      /\ Len(store') > Len(store)
                            => store' = Append(store, log_calls'[Len(log_calls')].row)]_vars

\* a write that raised on an open port, while monitoring
C14_Witness ==
    /\ result.status = "send_failed"
    /\ serial_conn = "open"
    /\ running
    /\ store = <<>>

\* C15: a thread is updating the stats or logging only while it holds a
\* non-empty payload, so the counters, the time stamps and the received
\* records never outnumber the non-empty reads
C15_NoPayloadNoUpdate ==
    /\ \A t \in Threads :
          pc[t] \in UpdatePcs \cup {"log_data"} => raw_data[t] # <<>>
    /\ stats.messages_received <= Len(read_lens)
    /\ stats.last_data_time <= Len(read_lens)
    /\ stats.bytes_received <= SumSeq(read_lens)
    /\ Len(ReceivedCalls) <= Len(read_lens)

\* script.py's thread is past a readline that gave it nothing
C15_Witness ==
    /\ logger = "Debug"
    /\ serial_conn = "open"
    /\ \E t \in Threads : pc[t] = "single_byte"
    /\ read_lens = <<>>
    /\ stats.messages_received = 0
    /\ stats.last_data_time = 0
    /\ store = <<>>

\* a payload that is valid UTF-8 and holds whitespace only
IsBlank(payload) ==
    LET d == Utf8Decode(payload)
    IN  d.ok /\ \A k \in 1..Len(d.text) : IsSpace(d.text[k])

\* C16: once no payload is in flight every payload read has had its log_data
\* call, and the call for a payload of whitespace only hands over an
\* auto_received row with empty data and the payload's length, after the stats
\* have counted the payload
C16_BlankPayloadStillLogged ==
    /\ (\A t \in Threads : raw_data[t] = <<>>)
          => Len(ReceivedCalls) = Len(read_lens)
    /\ \A i \in 1..Len(ReceivedCalls) :
          LET c == ReceivedCalls[i]
          IN  IsBlank(c.raw)
                => /\ c.row.data = <<>>
                   /\ c.row.data_type = "auto_received"
                   /\ c.row.byte_count = Len(c.raw)
                   /\ c.row.byte_count > 0
                   /\ stats.messages_received >= i
                   /\ stats.bytes_received >= Len(c.raw)
                   /\ stats.last_data_time >= i
                   /\ c.outcome = "stored" => c.row = store[Len(store)]

C16_Witness ==
    /\ Len(store) = 1
    /\ store[1].data = <<>>
    /\ store[1].data_type = "auto_received"
    /\ store[1].byte_count = 2
    /\ log_calls[1].raw = <<13, LF>>
    /\ stats.messages_received = 1
    /\ stats.bytes_received = 2

\* C17: whenever running is false while a polling thread is alive, that
\* thread ends, whatever the foreground does next
C17_StopSignalEndsEveryThread ==
    \A t \in 1..ShortEvents :
        (pc[t] \notin {"unstarted", "done"} /\ ~running) ~> (pc[t] = "done")

\* C18: while monitoring is active and a polling thread is inside its
\* log_data call, no foreground send hands a row to the store
C18_StoreUsedOnlyByPollingTask ==
    [][(/\ running
        /\ \E t \in Threads : pc[t] = "log_data"
        /\ D_send(SendCommands))
          => UNCHANGED <<store, log_calls>>]_vars

\* C19: in script2.py, whenever a polling thread comes to insert while the
\* store connection is down, then at some later point a reconnect is
\* attempted, or the connection is back, or monitoring has been stopped
C19_OutageInsertLeadsToReconnect ==
    \A t \in 1..ShortEvents :
        (logger = "Antenna" /\ pc[t] = "log_data" /\ db_conn # "connected")
            ~> (\/ db_conn = "connected"
                \/ \E u \in 1..ShortEvents : pc[u] = "reconnect_db"
                \/ ~running)

\* the payloads read and not yet handed to log_data
InFlight == {t \in Threads : raw_data[t] # <<>>}

\* C20: every step leaves the rows and the log_data calls made so far as they
\* are and adds at most one call; a thread leaving log_data has made exactly
\* one call, for the payload it held, as auto_received or binary_received; a
\* call for a received payload is made by such a thread only; a send that
\* succeeds makes exactly one command_sent call; and every payload read is in
\* flight or has had its one call
C20_OneInsertPerFrameOrCommand ==
    [][LET n == Len(log_calls)
           new == log_calls'[n + 1]
       IN  /\ Len(store') >= Len(store)
           /\ SubSeq(store', 1, Len(store)) = store
           /\ Len(log_calls') \in {n, n + 1}
           /\ SubSeq(log_calls', 1, n) = log_calls
           /\ \A t \in Threads :
                 (pc[t] = "log_data" /\ pc'[t] # "log_data")
                     => /\ Len(log_calls') = n + 1
                        /\ new.raw = raw_data[t]
                        /\ new.row.data_type \in ReceivedTypes
                        /\ raw_data'[t] = <<>>
           /\ (Len(log_calls') = n + 1 /\ new.row.data_type \in ReceivedTypes)
                 => \E t \in Threads : pc[t] = "log_data" /\ pc'[t] # "log_data"
           /\ (D_send(SendCommands) /\ result'.status = "ok")
                 => /\ Len(log_calls') = n + 1
                    /\ new.row.data_type = "command_sent"
           /\ (Len(log_calls') = n + 1 /\ new.row.data_type = "command_sent")
                 => D_send(SendCommands)
           /\ Len(ReceivedCalls') + Cardinality(InFlight') = Len(read_lens')]_vars

C20_Witness ==
    /\ Len(store) = 2
    /\ \E i \in 1..2 : store[i].data_type = "command_sent"
    /\ \E i \in 1..2 : store[i].data_type = "auto_received"
    /\ Len(log_calls) = 2
    /\ Len(read_lens) = 1

\* C21: every payload readline hands to the loop, in flight or already logged,
\* ends at a line feed
C21_PayloadIsCompleteLine ==
    /\ \A t \in Threads : raw_data[t] # <<>> => Last(raw_data[t]) = LF
    /\ \A i \in 1..Len(ReceivedCalls) : Last(ReceivedCalls[i].raw) = LF

\* C22: in the single-antenna logger, while monitoring, every step that takes
\* bytes out of the open port's buffer hands exactly those bytes to a polling
\* thread as its payload (which the thread then counts and logs)
C22_ConsumedBytesBecomePayload ==
    [][(logger = "Debug" /\ running /\ serial_conn' = "open"
            /\ Len(rx') < Len(rx))
        => \E t \in Threads :
              /\ pc[t] = "readline"
              /\ raw_data'[t] = SubSeq(rx, 1, Len(rx) - Len(rx'))
              /\ read_lens' = Append(read_lens, Len(raw_data'[t]))]_vars

\* C23: the received records one logger has persisted never outnumber
\* messages_received, and their byte counts never sum to more than
\* bytes_received
C23_StoreNeverAheadOfStats ==
    /\ Len(ReceivedRows) <= stats.messages_received
    /\ SumSeq([i \in 1..Len(ReceivedRows) |-> ReceivedRows[i].byte_count])
           <= stats.bytes_received

====
